---- MODULE Spec2Model ----
(***************************************************************************)
(* MACS: multi-agent deal review.  A driver (orchestrator.py) claims one    *)
(* NEW deal from the deals table (db.py), runs the LangGraph workflow       *)
(* Scout -> Contrarian -> Judge -> (loop | END) (workflow.py, agents.py),   *)
(* and either persists the results or marks the deal FAILED.                *)
(*                                                                         *)
(* Numbers.  Probabilities, scores and ratios are fixed-point integers in   *)
(* units of 1/10000 (Unit = 1.0), which is the precision round(_, 4) keeps. *)
(* Money is in units of $10k.  Text produced by the language model is kept  *)
(* only where the code inspects it (the length of the Judge's reasoning,    *)
(* the lengths of the lists).  Python's None is the string "None" for a      *)
(* text field and the empty tuple for a number, a boolean or a report.      *)
(***************************************************************************)
EXTENDS Integers, Sequences, FiniteSets, TLC

VARIABLES
    deals,          \* the deals table, in order of created_at: [data, status]
    memos,          \* rows of the memos table
    scout_reports,  \* rows of the scout_reports table
    contrarian_reports, \* rows of the contrarian_reports table
    pc,             \* where the driver is: poll, process, scout, contrarian, judge,
                    \* route, END (workflow.invoke returned), error (it raised)
    deal,           \* index in deals of the deal the driver holds (0: none)
    state,          \* the DealState threaded through the workflow
    attempt,        \* loop variable of _invoke_with_retry; 0 before the node is entered
    prompt,         \* the prompt of the running stage: [label, note, fixes]
    last_error,     \* last_error of _invoke_with_retry
    exc,            \* message of the exception propagating out of workflow.invoke
    hist,           \* history: counts and cycle stamps used only by the properties
    eng,            \* the decision-engine call under test: function, arguments, result
    drv,            \* pool of drivers: each one's position in fetch_and_lock_deal
    locks,          \* row locks of the deals table: row -> holding driver (0: free)
    claimed         \* history: per row, the drivers it was returned to, and its reviews

vars == <<deals, memos, scout_reports, contrarian_reports, pc, deal, state,
          attempt, prompt, last_error, exc, hist, eng, drv, locks, claimed>>

\* what belongs to the single review, to the engine harness, to the driver pool
review_vars == <<memos, scout_reports, contrarian_reports, pc, deal, state,
                 attempt, prompt, last_error, exc, hist>>
engine_vars == <<eng>>
pool_vars == <<drv, locks, claimed>>

-----------------------------------------------------------------------------
(* Units and bounds *)

Unit == 100 * 100            \* 1.0 in fixed point
None == "None"

\* Optional numbers, booleans and reports: Nothing is Python's None.
Nothing == <<>>
Some(x) == <<x>>
Val(o) == o[1]

MaxDeals == 1                \* deals the producer inserts

-----------------------------------------------------------------------------
(* RISK_CONFIG, agents.py 12-29, and MAX_CYCLES, workflow.py 5 *)

leverage_threshold == 4             \* 4.0 (a plain multiple)
leverage_penalty_multiplier == 2    \* 2.0
upside_weight == 12                 \* 1.2, in tenths
downside_weight_normal == 10        \* 1.0, in tenths
downside_weight_levered == 13       \* 1.3, in tenths
invest_threshold == 4500            \* 0.45
pass_threshold == -1500             \* -0.15
max_cycles == 2
max_retries == 2
MAX_CYCLES == 2

-----------------------------------------------------------------------------
(* Arithmetic helpers *)

Min(a, b) == IF a < b THEN a ELSE b
Max(a, b) == IF a > b THEN a ELSE b
Abs(a) == IF a < 0 THEN -a ELSE a

\* Python's round() on n/d (d > 0): to the nearest integer, ties to even.
RoundDiv(n, d) ==
    LET q == n \div d
        r == n % d
    IN  IF 2 * r < d THEN q
        ELSE IF 2 * r > d THEN q + 1
        ELSE IF q % 2 = 0 THEN q ELSE q + 1

-----------------------------------------------------------------------------
(* Decision engine and conflict system, agents.py 96-158 *)

\* ebitda of a deal row; rows read by fetch_and_lock_deal always carry it.
Ebitda(d) == d.ebitda

\* Faulty variant: a multiple of exactly the threshold already counts as high.
Levered_inclusive(d) ==
    IF Ebitda(d) > 0 THEN d.net_debt >= leverage_threshold * Ebitda(d)
    ELSE 0 >= leverage_threshold

\* nd_mult > leverage_threshold, with nd_mult = net_debt / ebitda if ebitda > 0 else 0
Levered(d) ==
    IF Ebitda(d) > 0 THEN d.net_debt > leverage_threshold * Ebitda(d)
    ELSE 0 > leverage_threshold

leverage_penalty(d) == IF Levered(d) THEN leverage_penalty_multiplier ELSE 1

\* Faulty variant: the penalised bearish confidence is not capped at 1.0.
compute_score_uncapped(bullish, bearish, d) ==
    LET adjusted_bearish == bearish * leverage_penalty(d)
        downside_weight  == IF leverage_penalty(d) > 1
                            THEN downside_weight_levered
                            ELSE downside_weight_normal
        score == bullish * upside_weight - adjusted_bearish * downside_weight
    IN  RoundDiv(Max(-10 * Unit, Min(10 * Unit, score)), 10)

\* Faulty variant: the upside weight is ambient state that moves with every
\* call made.
compute_score_drifting(bullish, bearish, d) ==
    LET adjusted_bearish == Min(Unit, bearish * leverage_penalty(d))
        downside_weight  == IF leverage_penalty(d) > 1
                            THEN downside_weight_levered
                            ELSE downside_weight_normal
        score == bullish * (upside_weight - eng.calls)
                   - adjusted_bearish * downside_weight
    IN  RoundDiv(Max(-10 * Unit, Min(10 * Unit, score)), 10)

\* Faulty variant: high leverage divides the bearish confidence.
compute_score_relieved(bullish, bearish, d) ==
    LET adjusted_bearish == Min(Unit, bearish \div leverage_penalty(d))
        downside_weight  == IF leverage_penalty(d) > 1
                            THEN downside_weight_levered
                            ELSE downside_weight_normal
        score == bullish * upside_weight - adjusted_bearish * downside_weight
    IN  RoundDiv(Max(-10 * Unit, Min(10 * Unit, score)), 10)

compute_score(bullish, bearish, d) ==
    LET adjusted_bearish == Min(Unit, bearish * leverage_penalty(d))
        downside_weight  == IF leverage_penalty(d) > 1
                            THEN downside_weight_levered
                            ELSE downside_weight_normal
        \* in units of 1/100000
        score == bullish * upside_weight - adjusted_bearish * downside_weight
    IN  RoundDiv(Max(-10 * Unit, Min(10 * Unit, score)), 10)

\* Faulty variant: the thresholds themselves count as INVEST and as PASS.
verdict_inclusive(score) ==
    IF score >= invest_threshold THEN "INVEST"
    ELSE IF score <= pass_threshold THEN "PASS"
    ELSE "REQUIRES_DUE_DILIGENCE"

verdict(score) ==
    IF score > invest_threshold THEN "INVEST"
    ELSE IF score < pass_threshold THEN "PASS"
    ELSE "REQUIRES_DUE_DILIGENCE"

\* The confidences are Python floats: k/10000 is held as the nearest binary
\* double, and bullish - bearish is rounded to a double again.  A double in
\* [2^-s, 2^(1-s)) has 53 significant bits, so its last place is 2^(-s-52).
RECURSIVE BinadeShift(_)
BinadeShift(k) == IF k >= Unit THEN 0 ELSE 1 + BinadeShift(2 * k)

RECURSIVE Pow2Mod625(_)
Pow2Mod625(n) == IF n = 0 THEN 1 ELSE (2 * Pow2Mod625(n - 1)) % 625

\* float(k/10000) - k/10000, in units of 2^-66 / 625.  In units of the last
\* place k/10000 is k * 2^(48+s) / 625, which is rounded to the nearest integer.
FloatError(k) ==
    IF k = 0 THEN 0
    ELSE LET s == BinadeShift(k)
             r == ((k % 625) * Pow2Mod625(48 + s)) % 625
             d == IF 2 * r < 625 THEN -r ELSE 625 - r
         IN  d * 2^(14 - s)

\* abs(bullish - bearish) > 0.40, agents.py 143-144.  Away from a decimal gap
\* of 0.40 the rounding errors (below 10^-15) cannot change the comparison.  At
\* a decimal gap of exactly 0.40 the difference of the two doubles is rounded
\* to the nearest multiple of 2^-54 and compared with the double 0.40: it is
\* greater when it lies more than half a last place above (a tie rounds to
\* the even neighbour, which is the double 0.40 itself).
gap_exceeds(bullish, bearish) ==
    LET hi == Max(bullish, bearish)
        lo == Min(bullish, bearish)
    IN  IF hi - lo # 4000 THEN hi - lo > 4000
        ELSE 2 * (FloatError(hi) - FloatError(lo) - FloatError(4000))
               > 625 * 2^12

classify_conflict(bullish, bearish, score) ==
    IF gap_exceeds(bullish, bearish) THEN "PROBABILITY_DISAGREEMENT"
    ELSE IF -2000 < score /\ score < 2000 THEN "AMBIGUOUS_SIGNAL"
    ELSE "STRUCTURAL_DISAGREEMENT"

\* Faulty variants: an ambiguous conflict is resolved by the score like a
\* probability disagreement; the structural shift is applied upwards.
resolve_conflict_trusts_math(conflict_type, score) ==
    IF conflict_type = "STRUCTURAL_DISAGREEMENT" THEN verdict(score - 1500)
    ELSE verdict(score)

resolve_conflict_lenient(conflict_type, score) ==
    IF conflict_type = "AMBIGUOUS_SIGNAL" THEN "REQUIRES_DUE_DILIGENCE"
    ELSE IF conflict_type = "STRUCTURAL_DISAGREEMENT" THEN verdict(score + 1500)
    ELSE verdict(score)

resolve_conflict(conflict_type, score) ==
    IF conflict_type = "AMBIGUOUS_SIGNAL" THEN "REQUIRES_DUE_DILIGENCE"
    ELSE IF conflict_type = "STRUCTURAL_DISAGREEMENT" THEN verdict(score - 1500)
    ELSE verdict(score)

-----------------------------------------------------------------------------
(* Deals.  Ratios in units of 1/10000, money in $10k. *)

SoundDeal ==
    [revenue |-> 1000, revenue_growth |-> 2100, revenue_cagr_3y |-> 2100,
     gross_margin |-> 6000, ebitda_margin |-> 2000, ebitda |-> 200,
     net_debt |-> 200, free_cash_flow |-> 50, employee_count |-> 25]

\* net debt of 5.0 x EBITDA
LeveredDeal == [SoundDeal EXCEPT !.net_debt = 1000]

\* negative EBITDA margin, negative growth, negative free cash flow
LossDeal ==
    [revenue |-> 1000, revenue_growth |-> -1000, revenue_cagr_3y |-> -1000,
     gross_margin |-> 1000, ebitda_margin |-> -2000, ebitda |-> -200,
     net_debt |-> 500, free_cash_flow |-> -40, employee_count |-> 0]

DealProfiles == {SoundDeal, LeveredDeal, LossDeal}

\* an EBITDA loss as large as the revenue
DeepLossDeal == [LossDeal EXCEPT !.ebitda_margin = -Unit, !.ebitda = -1000]

-----------------------------------------------------------------------------
(* Quant input provider, scout.py 12-57.  Sub-scores are carried in units   *)
(* of 1/1000000 until they are rounded.                                     *)

Micro == 100 * Unit

run_scout(d) ==
    LET employee_count == IF d.employee_count = 0 THEN 1 ELSE d.employee_count
        \* raw_growth / 0.35 = (growth + cagr) / 0.7
        growth_score ==
            Min(Max(RoundDiv((d.revenue_growth + d.revenue_cagr_3y) * 1000, 7), 0),
                Micro)
        \* (0.4 gm + 0.6 em) / 0.40; no lower clamp
        margin_score ==
            Min((4 * d.gross_margin + 6 * d.ebitda_margin) * 25, Micro)
        fcf_score ==
            IF d.free_cash_flow > 0 THEN Micro
            ELSE Max(0, Micro + d.free_cash_flow * Unit)
        debt_cover ==
            IF Ebitda(d) <= 0 THEN Micro
            ELSE Min(Micro,
                     Max(0, Micro - RoundDiv(d.net_debt * 200000, Ebitda(d))))
        \* round(_, 4): in units of 1/10000 from here on
        cashflow_score == RoundDiv(6 * fcf_score + 4 * debt_cover, 1000)
        \* revenue / employees / 300000
        efficiency_score ==
            Min(RoundDiv(d.revenue * 100000, 3 * employee_count), Micro)
        bullish_confidence ==
            RoundDiv(30 * growth_score + 35 * margin_score
                       + 25 * (cashflow_score * 100) + 10 * efficiency_score,
                     Unit)
    IN  [growth_score       |-> RoundDiv(growth_score, 1000) * 10,
         margin_score       |-> RoundDiv(margin_score, 1000) * 10,
         cashflow_score     |-> RoundDiv(cashflow_score, 10) * 10,
         efficiency_score   |-> RoundDiv(efficiency_score, 1000) * 10,
         bullish_confidence |-> bullish_confidence]

-----------------------------------------------------------------------------
(* Reviewer gateway, llm.py, and the structured-output parsers, schemas.py. *)
(* A call either raises, returns text the parser rejects, or returns text   *)
(* that parses into the stage's output type.                                *)

Items(n) == [i \in 1..n |-> "item"]

\* 60 and 59 characters
LongReasoning  == "Bullish 0.90 vs bearish 0.60 gives score 0.48; leverage 1.0x"
ShortReasoning == "Bullish 0.90 vs bearish 0.60 gives score 0.48; leverage 1.0"

Failures == {[kind |-> "error"], [kind |-> "unparsable"]}

\* confidences the model returns, some outside [0, 1]
BullishValues  == {-1, 5000, 9000, Unit + 1}
BearishValues  == {-1, 2000, 6000, Unit + 1}
DecisionConfidences == {-1, 8000, Unit + 1}
DecisionValues == {"INVEST", "PASS", "REQUIRES_DUE_DILIGENCE", "HOLD"}

ScoutResponses ==
    Failures \cup
    { [kind |-> "parsed", key_strengths |-> Items(ks), concerns |-> Items(cs),
       bullish_confidence |-> b] :
        ks \in {2, 3}, cs \in {3, 4}, b \in BullishValues }

ContrarianResponses ==
    Failures \cup
    { [kind |-> "parsed", red_flags |-> Items(rf), bearish_confidence |-> b] :
        rf \in {0, 1}, b \in BearishValues }

JudgeResponses ==
    Failures \cup
    { [kind |-> "parsed", final_decision |-> fd, decision_confidence |-> dc,
       reasoning |-> rs] :
        fd \in DecisionValues, dc \in DecisionConfidences,
        rs \in {LongReasoning, ShortReasoning} }

-----------------------------------------------------------------------------
(* Quality checks of the three stages: the failure reason, or None.         *)

\* Faulty variant: "fewer than 3" instead of "other than 3" concerns.
scout_quality_at_least(p) ==
    IF Len(p.key_strengths) # 3 THEN "Need exactly 3 key_strengths"
    ELSE IF Len(p.concerns) < 3 THEN "Need exactly 3 concerns"
    ELSE IF ~(0 <= p.bullish_confidence /\ p.bullish_confidence <= Unit)
         THEN "bullish_confidence out of range"
    ELSE None

scout_quality(p) ==
    IF Len(p.key_strengths) # 3 THEN "Need exactly 3 key_strengths"
    ELSE IF Len(p.concerns) # 3 THEN "Need exactly 3 concerns"
    ELSE IF ~(0 <= p.bullish_confidence /\ p.bullish_confidence <= Unit)
         THEN "bullish_confidence out of range"
    ELSE None

contrarian_quality(p) ==
    IF Len(p.red_flags) < 1 THEN "Need at least 1 red_flag"
    ELSE IF ~(0 <= p.bearish_confidence /\ p.bearish_confidence <= Unit)
         THEN "bearish_confidence out of range"
    ELSE None

judge_quality(p) ==
    IF p.final_decision \notin {"INVEST", "PASS", "REQUIRES_DUE_DILIGENCE"}
         THEN "Invalid final_decision: " \o p.final_decision
    ELSE IF ~(0 <= p.decision_confidence /\ p.decision_confidence <= Unit)
         THEN "decision_confidence out of range"
    ELSE IF Len(p.reasoning) < 60
         THEN "reasoning too short - must cite specific numbers"
    ELSE None

\* What one pass through the try block of _invoke_with_retry ends with:
\* None when parsed is returned, else str(e) of the exception caught.
attempt_error(resp, quality_error) ==
    IF resp.kind = "error" THEN "gateway error"
    ELSE IF resp.kind = "unparsable" THEN "output parse error"
    ELSE quality_error

-----------------------------------------------------------------------------
(* DealState, graph_state.py 4-31.  Keys process_deal does not set          *)
(* (llm_decision, system_decision, decision_source) read as None.           *)

EmptyState ==
    [deal_id |-> 0, deal_data |-> Nothing,
     scout_report |-> Nothing, contrarian_report |-> Nothing,
     conflict |-> Nothing, conflict_type |-> None,
     final_decision |-> None, llm_decision |-> None, system_decision |-> None,
     decision_source |-> None, decision_confidence |-> Nothing,
     reasoning |-> None, risk_adjusted_score |-> Nothing,
     review_cycle |-> 0]

\* initial_state of process_deal, orchestrator.py 25-37
InitialState(id, d) == [EmptyState EXCEPT !.deal_id = id, !.deal_data = Some(d)]

EmptyPrompt == [label |-> "", note |-> "", fixes |-> <<>>]
EmptyHist ==
    [scout_runs |-> 0,     \* scout_node executions of the review
     calls |-> 0,          \* llm.invoke calls of the stage execution
     scout_at |-> 0,       \* the cycle that wrote scout_report
     contrarian_at |-> 0,  \* the cycle that wrote contrarian_report
     judge_at |-> 0,       \* the cycle that wrote the Judge fields
     aborted |-> <<>>]     \* <<label, review_cycle>> of the last aborted review

\* Python truth value of an optional boolean
Truthy(o) == o # Nothing /\ Val(o) = TRUE

-----------------------------------------------------------------------------
(* _invoke_with_retry, agents.py 68-90 *)

\* Faulty variant: "attempt <= max_retries" allows one attempt too many.
retries_left_inclusive(n) == n <= max_retries

\* attempt < RISK_CONFIG["max_retries"]: the except branch retries
retries_left(n) == n < max_retries

\* Faulty variant: the retry sends the same prompt again.
stricter_prompt_unchanged(p, err) == p

\* the prompt after a failed attempt that is retried
stricter_prompt(p, err) == [p EXCEPT !.fixes = Append(@, err)]

\* the RuntimeError raised when the attempts are used up
retry_exhausted(label, err) ==
    "[" \o label \o "] Failed after " \o ToString(max_retries) \o " retries: " \o err

\* Faulty variant: when the attempts are used up the loop starts over instead
\* of raising.
FailedAttemptRestarts(err) ==
    /\ last_error' = err
    /\ IF retries_left(attempt)
       THEN /\ prompt' = stricter_prompt(prompt, err)
            /\ attempt' = attempt + 1
            /\ hist' = [hist EXCEPT !.calls = @ + 1]
       ELSE /\ prompt' = [prompt EXCEPT !.fixes = <<>>]
            /\ attempt' = 1
            /\ hist' = [hist EXCEPT !.calls = 0]
    /\ UNCHANGED <<pc, exc, state, deals, memos, scout_reports,
                   contrarian_reports, deal>>

\* Faulty variant: a failed attempt already counts as a cycle in the state.
FailedAttemptCommits(err) ==
    /\ last_error' = err
    /\ hist' = [hist EXCEPT !.calls = @ + 1]
    /\ IF retries_left(attempt)
       THEN /\ prompt' = stricter_prompt(prompt, err)
            /\ attempt' = attempt + 1
            /\ UNCHANGED <<pc, exc>>
       ELSE /\ exc' = retry_exhausted(prompt.label, err)
            /\ pc' = "error"
            /\ UNCHANGED <<prompt, attempt>>
    /\ state' = [state EXCEPT !.review_cycle = @ + 1]
    /\ UNCHANGED <<deals, memos, scout_reports, contrarian_reports, deal>>

\* The except branch: one failed attempt of the stage that is running.
FailedAttempt(err) ==
    /\ last_error' = err
    /\ hist' = [hist EXCEPT !.calls = @ + 1]
    /\ IF retries_left(attempt)
       THEN /\ prompt' = stricter_prompt(prompt, err)
            /\ attempt' = attempt + 1
            /\ UNCHANGED <<pc, exc>>
       ELSE /\ exc' = retry_exhausted(prompt.label, err)
            /\ pc' = "error"
            /\ UNCHANGED <<prompt, attempt>>
    /\ UNCHANGED <<state, deals, memos, scout_reports, contrarian_reports, deal>>

\* A node returns its update: its locals are gone, the next node is scheduled.
NodeReturns(next) ==
    /\ pc' = next
    /\ attempt' = 0
    /\ prompt' = EmptyPrompt
    /\ last_error' = None
    /\ UNCHANGED <<exc, deals, memos, scout_reports, contrarian_reports, deal>>

\* A node is entered: the prompt is built and the retry loop starts.
NodeEnters(label, note) ==
    /\ attempt' = 1
    /\ prompt' = [label |-> label, note |-> note, fixes |-> <<>>]
    /\ last_error' = None
    /\ UNCHANGED <<pc, state, exc, deals, memos, scout_reports,
                   contrarian_reports, deal>>

-----------------------------------------------------------------------------
(* scout_node, agents.py 164-218 *)

scout_note(cycle) == IF cycle >= 1 THEN "CYCLE 2 NOTE" ELSE ""

scout_update(st, parsed) ==
    [st EXCEPT
        !.scout_report = Some(
            [metrics            |-> run_scout(Val(st.deal_data)),
             key_strengths      |-> parsed.key_strengths,
             concerns           |-> parsed.concerns,
             bullish_confidence |-> parsed.bullish_confidence]),
        !.review_cycle = st.review_cycle + 1]

ScoutEnter ==
    /\ pc = "scout" /\ attempt = 0
    /\ NodeEnters("Scout", scout_note(state.review_cycle))
    /\ hist' = [hist EXCEPT !.scout_runs = @ + 1, !.calls = 0]
    /\ UNCHANGED <<engine_vars, pool_vars>>

\* Faulty variant: on a repeat cycle Scout hands over to the Judge directly,
\* which then scores against the Contrarian report of the cycle before.
ScoutAttemptStaleContrarian ==
    /\ pc = "scout" /\ attempt >= 1
    /\ \E resp \in ScoutResponses :
         LET err == attempt_error(resp, IF resp.kind = "parsed"
                                        THEN scout_quality(resp) ELSE None)
         IN  IF err = None
             THEN /\ state' = scout_update(state, resp)
                  /\ hist' = [hist EXCEPT !.calls = @ + 1,
                                          !.scout_at = hist.scout_runs]
                  /\ NodeReturns(IF state.review_cycle >= 1 THEN "judge"
                                 ELSE "contrarian")
             ELSE FailedAttempt(err)
    /\ UNCHANGED <<engine_vars, pool_vars>>

ScoutAttempt ==
    /\ pc = "scout" /\ attempt >= 1
    /\ \E resp \in ScoutResponses :
         LET err == attempt_error(resp, IF resp.kind = "parsed"
                                        THEN scout_quality(resp) ELSE None)
         IN  IF err = None
             THEN /\ state' = scout_update(state, resp)
                  /\ hist' = [hist EXCEPT !.calls = @ + 1,
                                          !.scout_at = hist.scout_runs]
                  /\ NodeReturns("contrarian")
             ELSE FailedAttempt(err)
    /\ UNCHANGED <<engine_vars, pool_vars>>

-----------------------------------------------------------------------------
(* contrarian_node, agents.py 224-280: the prompt carries no cycle note *)

contrarian_note(cycle) == ""

contrarian_update(st, parsed) ==
    [st EXCEPT
        !.contrarian_report = Some(
            [red_flags          |-> parsed.red_flags,
             bearish_confidence |-> parsed.bearish_confidence])]

ContrarianEnter ==
    /\ pc = "contrarian" /\ attempt = 0
    /\ NodeEnters("Contrarian", contrarian_note(state.review_cycle))
    /\ hist' = [hist EXCEPT !.calls = 0]
    /\ UNCHANGED <<engine_vars, pool_vars>>

ContrarianAttempt ==
    /\ pc = "contrarian" /\ attempt >= 1
    /\ \E resp \in ContrarianResponses :
         LET err == attempt_error(resp, IF resp.kind = "parsed"
                                        THEN contrarian_quality(resp) ELSE None)
         IN  IF err = None
             THEN /\ state' = contrarian_update(state, resp)
                  /\ hist' = [hist EXCEPT !.calls = @ + 1,
                                          !.contrarian_at = hist.scout_runs]
                  /\ NodeReturns("judge")
             ELSE FailedAttempt(err)
    /\ UNCHANGED <<engine_vars, pool_vars>>

-----------------------------------------------------------------------------
(* judge_node, agents.py 286-377 *)

judge_note(cycle) == IF cycle >= 2 THEN "FINAL CYCLE" ELSE ""

\* Faulty variant: "cycle > max_cycles" never holds, so nothing is forced.
is_final_strict(cycle) == cycle > max_cycles

\* Faulty variant: the Judge's final-cycle test is one cycle ahead of the
\* router's loop test.
is_final_early(cycle) == cycle >= max_cycles - 1

\* is_final, agents.py 350
is_final(cycle) == cycle >= max_cycles

forced_source(conflict_type) == "FORCED_" \o conflict_type

\* conflict_type, agents.py 347
judge_conflict_type(conflict, bullish, bearish, score) ==
    IF conflict THEN classify_conflict(bullish, bearish, score) ELSE None

\* Faulty variant: on a probability disagreement the Judge's statement stands.
judge_final_decision_llm_on_gap(final, conflict, conflict_type, score, llm_decision) ==
    IF final /\ conflict /\ conflict_type # "PROBABILITY_DISAGREEMENT"
    THEN resolve_conflict(conflict_type, score)
    ELSE llm_decision

\* final_decision, agents.py 351-354
judge_final_decision(final, conflict, conflict_type, score, llm_decision) ==
    IF final /\ conflict THEN resolve_conflict(conflict_type, score)
    ELSE llm_decision

\* Faulty variant: a conflict before the final cycle is tagged as agreement.
judge_source_no_pending(final, conflict, conflict_type) ==
    IF final /\ conflict THEN forced_source(conflict_type)
    ELSE "LLM_AGREES_WITH_MATH"

\* Faulty variant: a forced resolution is recorded as agreement.
judge_source_silent_override(final, conflict, conflict_type) ==
    IF conflict /\ ~final THEN "CONFLICT_PENDING_REVIEW"
    ELSE "LLM_AGREES_WITH_MATH"

\* source, agents.py 353-360
judge_source(final, conflict, conflict_type) ==
    IF final /\ conflict THEN forced_source(conflict_type)
    ELSE IF conflict THEN "CONFLICT_PENDING_REVIEW"
    ELSE "LLM_AGREES_WITH_MATH"

\* Faulty variant: the Judge counts a cycle too.
judge_update_counts_cycle(st, parsed) ==
    LET bullish == Val(st.scout_report).bullish_confidence
        bearish == Val(st.contrarian_report).bearish_confidence
        score   == compute_score(bullish, bearish, Val(st.deal_data))
        system_verdict == verdict(score)
        conflict == parsed.final_decision # system_verdict
        conflict_type == judge_conflict_type(conflict, bullish, bearish, score)
        final == is_final(st.review_cycle)
    IN  [st EXCEPT
            !.final_decision = judge_final_decision(final, conflict, conflict_type,
                                                    score, parsed.final_decision),
            !.llm_decision = parsed.final_decision,
            !.system_decision = system_verdict,
            !.decision_source = judge_source(final, conflict, conflict_type),
            !.decision_confidence = Some(parsed.decision_confidence),
            !.reasoning = parsed.reasoning,
            !.risk_adjusted_score = Some(score),
            !.conflict = Some(conflict),
            !.conflict_type = conflict_type,
            !.review_cycle = st.review_cycle + 1]

judge_update(st, parsed) ==
    LET bullish == Val(st.scout_report).bullish_confidence
        bearish == Val(st.contrarian_report).bearish_confidence
        score   == compute_score(bullish, bearish, Val(st.deal_data))
        system_verdict == verdict(score)
        conflict == parsed.final_decision # system_verdict
        conflict_type == judge_conflict_type(conflict, bullish, bearish, score)
        final == is_final(st.review_cycle)
    IN  [st EXCEPT
            !.final_decision = judge_final_decision(final, conflict, conflict_type,
                                                    score, parsed.final_decision),
            !.llm_decision = parsed.final_decision,
            !.system_decision = system_verdict,
            !.decision_source = judge_source(final, conflict, conflict_type),
            !.decision_confidence = Some(parsed.decision_confidence),
            !.reasoning = parsed.reasoning,
            !.risk_adjusted_score = Some(score),
            !.conflict = Some(conflict),
            !.conflict_type = conflict_type]

JudgeEnter ==
    /\ pc = "judge" /\ attempt = 0
    /\ NodeEnters("Judge", judge_note(state.review_cycle))
    /\ hist' = [hist EXCEPT !.calls = 0]
    /\ UNCHANGED <<engine_vars, pool_vars>>

JudgeAttempt ==
    /\ pc = "judge" /\ attempt >= 1
    /\ \E resp \in JudgeResponses :
         LET err == attempt_error(resp, IF resp.kind = "parsed"
                                        THEN judge_quality(resp) ELSE None)
         IN  IF err = None
             THEN /\ state' = judge_update(state, resp)
                  /\ hist' = [hist EXCEPT !.calls = @ + 1,
                                          !.judge_at = hist.scout_runs]
                  /\ NodeReturns("route")
             ELSE FailedAttempt(err)
    /\ UNCHANGED <<engine_vars, pool_vars>>

-----------------------------------------------------------------------------
(* The graph, workflow.py 8-45 *)

\* Faulty variants of the router: "cycle <= MAX_CYCLES", and a router that
\* loops while cycles remain whether or not a conflict was recorded.
route_after_judge_inclusive(st) ==
    IF Truthy(st.conflict) /\ st.review_cycle <= MAX_CYCLES THEN "scout" ELSE "END"

route_after_judge_any(st) ==
    IF st.review_cycle < MAX_CYCLES THEN "scout" ELSE "END"

route_after_judge(st) ==
    IF Truthy(st.conflict) /\ st.review_cycle < MAX_CYCLES THEN "scout" ELSE "END"

Route ==
    /\ pc = "route"
    /\ pc' = route_after_judge(state)
    /\ UNCHANGED <<state, attempt, prompt, last_error, exc, hist, deals, memos,
                   scout_reports, contrarian_reports, deal>>
    /\ UNCHANGED <<engine_vars, pool_vars>>

-----------------------------------------------------------------------------
(* Storage, db.py *)

\* insert_deal, producer.py 69-90: status defaults to NEW, review_cycle to 0
deal_row(d) == [data |-> d, status |-> "NEW", review_cycle |-> 0]

\* the row fetch_and_lock_deal selects: the oldest NEW one, 0 when there is none
oldest_new(table) ==
    LET new == {i \in DOMAIN table : table[i].status = "NEW"}
    IN  IF new = {} THEN 0 ELSE CHOOSE i \in new : \A j \in new : i <= j

\* save_results, db.py 162-169
risk_adj(st) ==
    LET bullish == Val(st.scout_report).metrics.bullish_confidence
        bearish == Val(st.contrarian_report).bearish_confidence
    IN  RoundDiv(bullish - bearish + Unit, 2)   \* the deals used avoid ties

\* final_state.get("risk_adjusted_score") or risk_adj
memo_score(st) ==
    IF st.risk_adjusted_score # Nothing /\ Val(st.risk_adjusted_score) # 0
    THEN Val(st.risk_adjusted_score)
    ELSE risk_adj(st)

scout_row(id, st) ==
    LET scout   == Val(st.scout_report)
        metrics == scout.metrics
    IN  [deal_id |-> id,
         growth_score |-> metrics.growth_score,
         margin_score |-> metrics.margin_score,
         cashflow_score |-> metrics.cashflow_score,
         efficiency_score |-> metrics.efficiency_score,
         bullish_confidence |-> metrics.bullish_confidence,
         key_strengths |-> scout.key_strengths,
         concerns |-> scout.concerns]

contrarian_row(id, st) ==
    LET contrarian == Val(st.contrarian_report)
    IN  [deal_id |-> id,
         risk_score |-> contrarian.bearish_confidence,
         red_flags |-> contrarian.red_flags,
         bearish_confidence |-> contrarian.bearish_confidence]

memo_row(id, st) ==
    [deal_id |-> id,
     final_decision |-> st.final_decision,
     risk_adjusted_score |-> memo_score(st),
     conflict_flag |-> Truthy(st.conflict),
     summary |-> st.reasoning,
     review_cycles |-> st.review_cycle]

-----------------------------------------------------------------------------
(* Producer, producer.py 93-106 *)

InsertDeal ==
    /\ Len(deals) < MaxDeals
    /\ \E d \in DealProfiles : deals' = Append(deals, deal_row(d))
    /\ UNCHANGED <<memos, scout_reports, contrarian_reports, pc, deal, state,
                   attempt, prompt, last_error, exc, hist>>
    /\ UNCHANGED <<engine_vars, pool_vars>>

-----------------------------------------------------------------------------
(* Deal lifecycle driver, orchestrator.py *)

\* fetch_and_lock_deal, db.py 118-159, called at orchestrator.py 74-79
FetchAndLock ==
    /\ pc = "poll"
    /\ LET id == oldest_new(deals)
       IN  IF id = 0
           THEN UNCHANGED <<deals, pc, deal>>
           ELSE /\ deals' = [deals EXCEPT ![id].status = "PROCESSING"]
                /\ deal' = id
                /\ pc' = "process"
    /\ UNCHANGED <<memos, scout_reports, contrarian_reports, state, attempt,
                   prompt, last_error, exc, hist>>
    /\ UNCHANGED <<engine_vars, pool_vars>>

\* process_deal up to workflow.invoke, orchestrator.py 10-43
ProcessDeal ==
    /\ pc = "process"
    /\ state' = InitialState(deal, deals[deal].data)
    /\ pc' = "scout"
    /\ attempt' = 0
    /\ hist' = EmptyHist
    /\ UNCHANGED <<deals, memos, scout_reports, contrarian_reports, deal,
                   prompt, last_error, exc>>
    /\ UNCHANGED <<engine_vars, pool_vars>>

\* process_deal after workflow.invoke returned: save_results, db.py 162-222
SaveResults ==
    /\ pc = "END"
    /\ scout_reports' = Append(scout_reports, scout_row(deal, state))
    /\ contrarian_reports' = Append(contrarian_reports, contrarian_row(deal, state))
    /\ memos' = Append(memos, memo_row(deal, state))
    /\ deals' = [deals EXCEPT ![deal].status = "FINALIZED",
                              ![deal].review_cycle = state.review_cycle]
    /\ pc' = "poll"
    /\ deal' = 0
    /\ state' = EmptyState
    /\ hist' = EmptyHist
    /\ UNCHANGED <<attempt, prompt, last_error, exc>>
    /\ UNCHANGED <<engine_vars, pool_vars>>

\* Faulty variant: the connection commits each statement, so the rows written
\* before the failure stay.
SaveResultsRaisesNoRollback ==
    /\ pc = "END"
    /\ scout_reports' = Append(scout_reports, scout_row(deal, state))
    /\ contrarian_reports' = Append(contrarian_reports, contrarian_row(deal, state))
    /\ memos' = Append(memos, memo_row(deal, state))
    /\ exc' = "storage error"
    /\ pc' = "save_error"
    /\ UNCHANGED <<deals, deal, state, attempt, prompt, last_error, hist>>
    /\ UNCHANGED <<engine_vars, pool_vars>>

\* save_results raises, db.py 162-222: a statement or the commit fails, the
\* connection block rolls the transaction back, and the exception leaves
\* process_deal for the except branch of run_orchestrator
SaveResultsRaises ==
    /\ pc = "END"
    /\ exc' = "storage error"
    /\ pc' = "save_error"
    /\ UNCHANGED <<deals, memos, scout_reports, contrarian_reports, deal, state,
                   attempt, prompt, last_error, hist>>
    /\ UNCHANGED <<engine_vars, pool_vars>>

\* Faulty variant: the failed deal is put back in the queue.
MarkFailedRequeues ==
    /\ pc \in {"error", "save_error"}
    /\ deals' = [deals EXCEPT ![deal].status = "NEW"]
    /\ pc' = "poll"
    /\ deal' = 0
    /\ state' = EmptyState
    /\ attempt' = 0
    /\ prompt' = EmptyPrompt
    /\ last_error' = None
    /\ exc' = None
    /\ hist' = [EmptyHist EXCEPT !.aborted = <<prompt.label, state.review_cycle>>]
    /\ UNCHANGED <<memos, scout_reports, contrarian_reports>>
    /\ UNCHANGED <<engine_vars, pool_vars>>

\* the except branch of run_orchestrator: mark_failed, db.py 225-232
MarkFailed ==
    /\ pc \in {"error", "save_error"}
    /\ deals' = [deals EXCEPT ![deal].status = "FAILED"]
    /\ pc' = "poll"
    /\ deal' = 0
    /\ state' = EmptyState
    /\ attempt' = 0
    /\ prompt' = EmptyPrompt
    /\ last_error' = None
    /\ exc' = None
    /\ hist' = [EmptyHist EXCEPT !.aborted = <<prompt.label, state.review_cycle>>]
    /\ UNCHANGED <<memos, scout_reports, contrarian_reports>>
    /\ UNCHANGED <<engine_vars, pool_vars>>

-----------------------------------------------------------------------------
(* The decision engine and the conflict system called on their own: the     *)
(* functions of agents.py 96-158 take no state, so each is called on        *)
(* arguments from a grid, called once more on the same arguments, and       *)
(* returns.                                                                 *)

GridPoints == 20             \* the grid divides [0, 1] in this many steps

\* confidences on the grid, and two that are 0.40 apart off the grid
Confidences ==
    {(k * Unit) \div GridPoints : k \in 0..GridPoints} \cup {4100, 8100}

\* scores on the grid, and those next to a threshold of the code
Scores ==
    {(k * Unit) \div GridPoints : k \in -GridPoints..GridPoints}
    \cup {-2000, -1999, -1501, -1500, -1499, -1, 1, 1999, 2000,
          4499, 4500, 4501, 5999, 6000, 6001}

\* net debt of exactly 4.0 x EBITDA, and just above it
ThresholdDeal == [SoundDeal EXCEPT !.net_debt = 800]
OverThresholdDeal == [SoundDeal EXCEPT !.net_debt = 801]
\* no EBITDA at all, with debt
ZeroEbitdaDeal == [LossDeal EXCEPT !.ebitda = 0, !.ebitda_margin = 0]

EngineDeals ==
    {SoundDeal, ThresholdDeal, OverThresholdDeal, LeveredDeal, LossDeal,
     ZeroEbitdaDeal}

\* the deals run_scout is called on
ScoutDeals == EngineDeals \cup {DeepLossDeal}

ConflictTypes ==
    {"PROBABILITY_DISAGREEMENT", "AMBIGUOUS_SIGNAL", "STRUCTURAL_DISAGREEMENT"}

NoCall ==
    [fn |-> "none", bullish |-> 0, bearish |-> 0, deal_data |-> Nothing,
     score |-> 0, conflict_type |-> None,
     result |-> Nothing,     \* what the call returned
     again |-> Nothing,      \* what the same call returned the second time
     calls |-> 0]            \* calls made so far

\* the function of the call applied to its arguments
Apply(e) ==
    CASE e.fn = "compute_score" ->
            compute_score(e.bullish, e.bearish, Val(e.deal_data))
      [] e.fn = "verdict" -> verdict(e.score)
      [] e.fn = "classify_conflict" ->
            classify_conflict(e.bullish, e.bearish, e.score)
      [] e.fn = "resolve_conflict" -> resolve_conflict(e.conflict_type, e.score)
      [] e.fn = "run_scout" -> run_scout(Val(e.deal_data))

Called(e) == [e EXCEPT !.result = Some(Apply(e)), !.calls = 1]

CallComputeScore ==
    /\ eng.fn = "none"
    /\ \E bullish \in Confidences, bearish \in Confidences, d \in EngineDeals :
         eng' = Called([NoCall EXCEPT !.fn = "compute_score",
                                      !.bullish = bullish, !.bearish = bearish,
                                      !.deal_data = Some(d)])
    /\ UNCHANGED <<deals, review_vars, pool_vars>>

CallVerdict ==
    /\ eng.fn = "none"
    /\ \E score \in Scores :
         eng' = Called([NoCall EXCEPT !.fn = "verdict", !.score = score])
    /\ UNCHANGED <<deals, review_vars, pool_vars>>

CallClassifyConflict ==
    /\ eng.fn = "none"
    /\ \E bullish \in Confidences, bearish \in Confidences, score \in Scores :
         eng' = Called([NoCall EXCEPT !.fn = "classify_conflict",
                                      !.bullish = bullish, !.bearish = bearish,
                                      !.score = score])
    /\ UNCHANGED <<deals, review_vars, pool_vars>>

CallResolveConflict ==
    /\ eng.fn = "none"
    /\ \E conflict_type \in ConflictTypes, score \in Scores :
         eng' = Called([NoCall EXCEPT !.fn = "resolve_conflict",
                                      !.conflict_type = conflict_type,
                                      !.score = score])
    /\ UNCHANGED <<deals, review_vars, pool_vars>>

CallRunScout ==
    /\ eng.fn = "none"
    /\ \E d \in ScoutDeals :
         eng' = Called([NoCall EXCEPT !.fn = "run_scout", !.deal_data = Some(d)])
    /\ UNCHANGED <<deals, review_vars, pool_vars>>

\* the same function on the same arguments, a second time
CallAgain ==
    /\ eng.fn # "none" /\ eng.again = Nothing
    /\ eng' = [eng EXCEPT !.again = Some(Apply(eng)), !.calls = 2]
    /\ UNCHANGED <<deals, review_vars, pool_vars>>

EngineReturn ==
    /\ eng.fn # "none"
    /\ eng' = NoCall
    /\ UNCHANGED <<deals, review_vars, pool_vars>>

-----------------------------------------------------------------------------
(* Several drivers on one deals table.  Each driver is a run_orchestrator    *)
(* loop, orchestrator.py 71-87, in a process of its own; they meet only in   *)
(* the database.  fetch_and_lock_deal, db.py 118-141, is one transaction:    *)
(* SELECT ... WHERE status = 'NEW' ORDER BY created_at FOR UPDATE SKIP       *)
(* LOCKED LIMIT 1, then UPDATE ... SET status = 'PROCESSING', then commit.   *)
(* The SELECT reads a snapshot of the committed rows, then takes the row     *)
(* lock of the first candidate that is free and, read again under the lock,  *)
(* is still NEW; the UPDATE is visible to the others from the commit on,     *)
(* which also releases the lock.  The review itself is one step here.        *)

PoolDrivers == 2             \* driver instances
PoolDeals == 2               \* deals the producer inserts

Drivers == 1..PoolDrivers

\* seen: the rows in the table when the SELECT took its snapshot
IdleDriver == [pc |-> "poll", cands |-> <<>>, row |-> 0, seen |-> 0]

\* Faulty variant: failed deals are picked up again.
claimable_retries_failed(row) == row.status \in {"NEW", "FAILED"}

\* WHERE status = 'NEW', db.py 127
claimable(row) == row.status = "NEW"

\* the rows a snapshot of the table shows as NEW, oldest first
RECURSIVE new_rows(_, _)
new_rows(table, i) ==
    IF i > Len(table) THEN <<>>
    ELSE IF claimable(table[i]) THEN <<i>> \o new_rows(table, i + 1)
    ELSE new_rows(table, i + 1)

\* Faulty variant: without ORDER BY the rows come in any order, here the
\* newest first.
select_new_unordered(table) ==
    LET rows == new_rows(table, 1)
    IN  [i \in 1..Len(rows) |-> rows[Len(rows) + 1 - i]]

\* SELECT ... WHERE status = 'NEW' ORDER BY created_at, db.py 122-128
select_new(table) == new_rows(table, 1)

\* Faulty variant: a plain SELECT, which neither takes nor respects row locks.
row_free_unlocked(r) == TRUE

\* FOR UPDATE SKIP LOCKED: the row lock can be taken at once
row_free(r) == locks[r] = 0

\* insert_deal, producer.py 69-90
PoolInsertDeal ==
    /\ Len(deals) < PoolDeals
    /\ \E d \in {SoundDeal, LossDeal} : deals' = Append(deals, deal_row(d))
    /\ locks' = Append(locks, 0)
    /\ claimed' = Append(claimed, [by |-> <<>>, reviews |-> 0])
    /\ UNCHANGED <<drv, review_vars, engine_vars>>

\* the SELECT starts: its snapshot
FetchSelect(w) ==
    /\ drv[w].pc = "poll"
    /\ drv' = [drv EXCEPT ![w].pc = "scan", ![w].cands = select_new(deals),
                           ![w].seen = Len(deals)]
    /\ UNCHANGED <<deals, locks, claimed, review_vars, engine_vars>>

\* the SELECT goes on to its next candidate, or ends: fetchone() is None
\* without a row (db.py 132-134), and the driver polls again
FetchLockRow(w) ==
    /\ drv[w].pc = "scan"
    /\ IF drv[w].cands = <<>>
       THEN /\ drv' = [drv EXCEPT ![w] = IdleDriver]
            /\ UNCHANGED locks
       ELSE LET r == Head(drv[w].cands)
            IN  IF row_free(r) /\ claimable(deals[r])
                THEN /\ locks' = [locks EXCEPT ![r] = w]
                     /\ drv' = [drv EXCEPT ![w] = [IdleDriver EXCEPT
                                              !.pc = "locked", !.row = r]]
                ELSE /\ drv' = [drv EXCEPT ![w].cands = Tail(@)]
                     /\ UNCHANGED locks
    /\ UNCHANGED <<deals, claimed, review_vars, engine_vars>>

\* the UPDATE, db.py 137-140: not yet visible to the other transactions
FetchUpdate(w) ==
    /\ drv[w].pc = "locked"
    /\ drv' = [drv EXCEPT ![w].pc = "updated"]
    /\ UNCHANGED <<deals, locks, claimed, review_vars, engine_vars>>

\* conn.commit(), db.py 141, and the return of the deal to run_orchestrator
FetchCommit(w) ==
    /\ drv[w].pc = "updated"
    /\ LET r == drv[w].row
       IN  /\ deals' = [deals EXCEPT ![r].status = "PROCESSING"]
           /\ locks' = [locks EXCEPT ![r] = 0]
           /\ claimed' = [claimed EXCEPT ![r].by = Append(@, w)]
    /\ drv' = [drv EXCEPT ![w].pc = "process"]
    /\ UNCHANGED <<review_vars, engine_vars>>

\* process_deal and save_results, or mark_failed when the review raised,
\* orchestrator.py 81-87
PoolProcessDeal(w) ==
    /\ drv[w].pc = "process"
    /\ LET r == drv[w].row
       IN  /\ \E outcome \in {"FINALIZED", "FAILED"} :
                deals' = [deals EXCEPT ![r].status = outcome]
           /\ claimed' = [claimed EXCEPT ![r].reviews = @ + 1]
    /\ drv' = [drv EXCEPT ![w] = IdleDriver]
    /\ UNCHANGED <<locks, review_vars, engine_vars>>

-----------------------------------------------------------------------------
(* The system *)

Init ==
    /\ deals = <<>>
    /\ memos = <<>>
    /\ scout_reports = <<>>
    /\ contrarian_reports = <<>>
    /\ pc = "poll"
    /\ deal = 0
    /\ state = EmptyState
    /\ attempt = 0
    /\ prompt = EmptyPrompt
    /\ last_error = None
    /\ exc = None
    /\ hist = EmptyHist
    /\ eng = NoCall
    /\ drv = [w \in Drivers |-> IdleDriver]
    /\ locks = <<>>
    /\ claimed = <<>>

Next ==
    \/ InsertDeal
    \/ FetchAndLock
    \/ ProcessDeal
    \/ ScoutEnter
    \/ ScoutAttempt
    \/ ContrarianEnter
    \/ ContrarianAttempt
    \/ JudgeEnter
    \/ JudgeAttempt
    \/ Route
    \/ SaveResults
    \/ SaveResultsRaises
    \/ MarkFailed

Spec == Init /\ [][Next]_vars

\* The driver is the main thread (main.py 34): it keeps running, and each call
\* of the gateway and of the database returns or raises.
DriverStep ==
    \/ FetchAndLock
    \/ ProcessDeal
    \/ ScoutEnter
    \/ ScoutAttempt
    \/ ContrarianEnter
    \/ ContrarianAttempt
    \/ JudgeEnter
    \/ JudgeAttempt
    \/ Route
    \/ SaveResults
    \/ SaveResultsRaises
    \/ MarkFailed

FairSpec == Spec /\ WF_vars(DriverStep)

\* The engine on its own.
EngineNext ==
    \/ CallComputeScore
    \/ CallVerdict
    \/ CallClassifyConflict
    \/ CallResolveConflict
    \/ CallRunScout
    \/ CallAgain
    \/ EngineReturn

EngineSpec == Init /\ [][EngineNext]_vars

\* The pool of drivers and the producer on the deals table.
PoolNext ==
    \/ PoolInsertDeal
    \/ \E w \in Drivers : FetchSelect(w)
    \/ \E w \in Drivers : FetchLockRow(w)
    \/ \E w \in Drivers : FetchUpdate(w)
    \/ \E w \in Drivers : FetchCommit(w)
    \/ \E w \in Drivers : PoolProcessDeal(w)

PoolSpec == Init /\ [][PoolNext]_vars

-----------------------------------------------------------------------------
(* Properties *)

Stages == {"scout", "contrarian", "judge"}

\* C1: in one deal review the Scout stage is executed at most maxCycles (= 2)
\* times, whatever the reviewers return.
C1_ScoutRunsBounded == hist.scout_runs <= MAX_CYCLES

\* a review that ended after two Scout executions
C1_Witness == pc = "END" /\ hist.scout_runs = MAX_CYCLES

\* C2: after every Judge execution the router is evaluated, and it goes back to
\* Scout if and only if the Judge recorded conflict = true and
\* review_cycle < maxCycles; in every other case the workflow ends.
C2_LoopIffConflictAndBudget ==
    [][ /\ (pc = "judge" /\ pc' \notin {"judge", "error"}) => pc' = "route"
        /\ (pc = "route" /\ pc' # pc) =>
             \/ /\ state.conflict = Some(TRUE) /\ state.review_cycle < 2
                /\ pc' = "scout"
             \/ /\ ~(state.conflict = Some(TRUE) /\ state.review_cycle < 2)
                /\ pc' = "END" ]_vars

\* the loop-back edge was taken: Scout is scheduled again after a conflict
C2_Witness ==
    pc = "scout" /\ attempt = 0 /\ state.review_cycle = 1
    /\ state.conflict = Some(TRUE)

\* C3: every started review eventually ends, in the terminal state with a
\* final decision or with the fatal error, provided each gateway call returns
\* or fails.
C3_ReviewEnds ==
    (pc \in Stages \cup {"route"})
        ~> \/ pc = "END" /\ state.final_decision # None
           \/ pc = "error" /\ exc # None

\* a review that went through a conflict and a second cycle and ended
C3_Witness ==
    pc = "END" /\ state.review_cycle = 2
    /\ state.decision_source = "LLM_AGREES_WITH_MATH"

\* C4: one stage execution calls the gateway at most maxAttempts (= 2) times,
\* gateway errors, parse failures and quality failures drawing on one budget;
\* when the second attempt fails too the retry-exhausted error is raised.
C4_RetryBudget ==
    /\ [](hist.calls <= 2)
    /\ [](pc = "error" => hist.calls = 2)
    /\ [][ (pc \in Stages /\ hist'.calls = 2 /\ hist.calls = 1
            /\ last_error' # None)
           => (pc' = "error"
               /\ exc' = "[" \o prompt.label \o "] Failed after 2 retries: "
                             \o last_error') ]_vars

\* a quality failure and then a gateway error used up the budget of the Judge
C4_Witness ==
    pc = "error" /\ hist.calls = 2 /\ prompt.label = "Judge"
    /\ prompt.fixes = <<"decision_confidence out of range">>
    /\ last_error = "gateway error"

NoRows(id) ==
    /\ \A i \in DOMAIN memos : memos[i].deal_id # id
    /\ \A i \in DOMAIN scout_reports : scout_reports[i].deal_id # id
    /\ \A i \in DOMAIN contrarian_reports : contrarian_reports[i].deal_id # id

\* C5: when a stage exhausts its retries the review is aborted: no stage runs
\* afterwards, nothing is persisted for the deal, and the driver marks the deal
\* FAILED.
C5_AbortOnExhaustion ==
    /\ [](pc = "error" =>
            exc # None /\ deals[deal].status = "PROCESSING" /\ NoRows(deal))
    /\ [](\A i \in DOMAIN deals : deals[i].status = "FAILED" => NoRows(i))
    /\ [][ (pc = "error" /\ pc' # pc)
           => /\ pc' = "poll"
              /\ deals'[deal].status = "FAILED"
              /\ UNCHANGED <<memos, scout_reports, contrarian_reports>> ]_vars

\* the Judge of the second cycle exhausted its retries and the deal is FAILED
C5_Witness ==
    /\ Len(deals) >= 1
    /\ deals[1].status = "FAILED"
    /\ hist.aborted = <<"Judge", 2>>
    /\ NoRows(1)

Decisions == {"INVEST", "PASS", "REQUIRES_DUE_DILIGENCE"}
InUnit(x) == 0 <= x /\ x <= Unit

\* C6: whatever the gateway returned, a stored ScoutReport has exactly 3
\* key_strengths, exactly 3 concerns and bullish_confidence in [0,1]; a stored
\* ContrarianReport has at least 1 red_flag and bearish_confidence in [0,1];
\* stored Judge fields have llm_decision and final_decision among the three
\* decisions, decision_confidence in [0,1] and reasoning of 60 characters or
\* more.
C6_StoredOutputsValid ==
    /\ state.scout_report # Nothing =>
         /\ Len(Val(state.scout_report).key_strengths) = 3
         /\ Len(Val(state.scout_report).concerns) = 3
         /\ InUnit(Val(state.scout_report).bullish_confidence)
    /\ state.contrarian_report # Nothing =>
         /\ Len(Val(state.contrarian_report).red_flags) >= 1
         /\ InUnit(Val(state.contrarian_report).bearish_confidence)
    /\ state.llm_decision # None =>
         /\ state.llm_decision \in Decisions
         /\ state.final_decision \in Decisions
         /\ state.decision_confidence # Nothing
         /\ InUnit(Val(state.decision_confidence))
         /\ Len(state.reasoning) >= 60

\* all three outputs are stored, the Judge's reasoning at the minimum length
C6_Witness ==
    /\ pc = "route"
    /\ state.scout_report # Nothing /\ state.contrarian_report # Nothing
    /\ state.llm_decision = "INVEST" /\ Len(state.reasoning) = 60

\* C7: a failed attempt (gateway error, parse failure, quality failure) changes
\* no field of the DealState; a stage changes the DealState only in the step
\* of an attempt that parsed and passed the quality check.
C7_FailedAttemptWritesNothing ==
    [][ /\ (pc \in Stages /\ hist'.calls = hist.calls + 1 /\ last_error' # None)
           => state' = state
        /\ (pc \in Stages /\ state' # state)
           => (hist'.calls = hist.calls + 1 /\ last_error' = None
               /\ pc' # pc /\ pc' # "error") ]_vars

\* the Scout of the second cycle failed once: the state is still that of the
\* first cycle
C7_Witness ==
    /\ pc = "scout" /\ attempt = 2 /\ last_error = "Need exactly 3 concerns"
    /\ state.review_cycle = 1 /\ hist.scout_at = 1 /\ hist.scout_runs = 2

\* C8: when the Judge completes with review_cycle >= maxCycles and a conflict,
\* final_decision is resolve(classify(bullish, bearish, score), score) whatever
\* the Judge stated, and decision_source is FORCED_<category>.
C8_ForcedResolution ==
    (pc \in {"route", "END"} /\ state.review_cycle >= 2
     /\ state.conflict = Some(TRUE))
    =>  LET bullish  == Val(state.scout_report).bullish_confidence
            bearish  == Val(state.contrarian_report).bearish_confidence
            score    == compute_score(bullish, bearish, Val(state.deal_data))
            category == classify_conflict(bullish, bearish, score)
        IN  /\ state.final_decision = resolve_conflict(category, score)
            /\ state.decision_source = "FORCED_" \o category
            /\ state.conflict_type = category

\* a structural disagreement on the final cycle: the Judge said PASS, the
\* score says INVEST, the forced decision is neither
C8_Witness ==
    /\ pc = "END" /\ state.review_cycle = 2 /\ state.conflict = Some(TRUE)
    /\ state.decision_source = "FORCED_STRUCTURAL_DISAGREEMENT"
    /\ state.llm_decision = "PASS"
    /\ state.system_decision = "INVEST"
    /\ state.final_decision = "REQUIRES_DUE_DILIGENCE"

\* C9: in every Judge output conflict is true exactly when the stated decision
\* differs from verdict(score); conflict_type is the classification when there
\* is a conflict and None otherwise; decision_source is LLM_AGREES_WITH_MATH
\* without conflict, CONFLICT_PENDING_REVIEW with a conflict and
\* review_cycle < maxCycles, and a FORCED_ tag with a conflict and
\* review_cycle >= maxCycles.
C9_JudgeOutput ==
    pc \in {"route", "END"}
    =>  LET bullish  == Val(state.scout_report).bullish_confidence
            bearish  == Val(state.contrarian_report).bearish_confidence
            score    == Val(state.risk_adjusted_score)
            conflict == state.llm_decision # verdict(score)
        IN  /\ score = compute_score(bullish, bearish, Val(state.deal_data))
            /\ state.system_decision = verdict(score)
            /\ state.conflict = Some(conflict)
            /\ state.conflict_type =
                 IF conflict THEN classify_conflict(bullish, bearish, score)
                 ELSE None
            /\ ~conflict => state.decision_source = "LLM_AGREES_WITH_MATH"
            /\ (conflict /\ state.review_cycle < 2)
                 => state.decision_source = "CONFLICT_PENDING_REVIEW"
            /\ (conflict /\ state.review_cycle >= 2)
                 => SubSeq(state.decision_source, 1, 7) = "FORCED_"

\* a conflict in the first cycle, classified and left pending
C9_Witness ==
    /\ pc = "route" /\ state.review_cycle = 1
    /\ state.decision_source = "CONFLICT_PENDING_REVIEW"
    /\ state.conflict_type = "AMBIGUOUS_SIGNAL"

\* C10: for a review that ran two cycles, the final_decision, score, conflict
\* flag and reports that are persisted are those the second cycle wrote; no
\* Judge field or report of the first cycle is persisted.
C10_PersistedIsLastCycle ==
    [][ (pc = "END" /\ pc' = "poll" /\ state.review_cycle = 2)
        =>  LET memo       == memos'[Len(memos')]
                scout      == scout_reports'[Len(scout_reports')]
                contrarian == contrarian_reports'[Len(contrarian_reports')]
            IN  /\ hist.scout_at = 2 /\ hist.contrarian_at = 2
                /\ hist.judge_at = 2
                /\ memo.deal_id = deal
                /\ memo.final_decision = state.final_decision
                /\ memo.risk_adjusted_score = Val(state.risk_adjusted_score)
                /\ memo.conflict_flag = Val(state.conflict)
                /\ memo.review_cycles = 2
                /\ scout.key_strengths = Val(state.scout_report).key_strengths
                /\ scout.concerns = Val(state.scout_report).concerns
                /\ contrarian.red_flags = Val(state.contrarian_report).red_flags
                /\ contrarian.bearish_confidence =
                     Val(state.contrarian_report).bearish_confidence ]_vars

\* C11: within one review the stages run one at a time in the order Scout,
\* Contrarian, Judge in every cycle; the Contrarian of cycle k works on the
\* ScoutReport written in cycle k, and the Judge of cycle k scores the bullish
\* and bearish confidences written in cycle k, never a report of an earlier
\* cycle.
C11_StagesInOrder ==
    /\ [](pc = "contrarian" =>
            /\ state.review_cycle = hist.scout_runs
            /\ hist.scout_at = hist.scout_runs)
    /\ [](pc = "judge" =>
            /\ state.review_cycle = hist.scout_runs
            /\ hist.scout_at = hist.scout_runs
            /\ hist.contrarian_at = hist.scout_runs)
    /\ [](pc \in {"route", "END"} =>
            /\ hist.judge_at = hist.scout_runs
            /\ hist.scout_at = hist.scout_runs
            /\ hist.contrarian_at = hist.scout_runs
            /\ state.risk_adjusted_score =
                 Some(compute_score(Val(state.scout_report).bullish_confidence,
                                    Val(state.contrarian_report).bearish_confidence,
                                    Val(state.deal_data))))
    /\ [][ /\ (pc = "scout" /\ pc' # pc) => pc' \in {"contrarian", "error"}
           /\ (pc = "contrarian" /\ pc' # pc) => pc' \in {"judge", "error"}
           /\ (pc = "judge" /\ pc' # pc) => pc' \in {"route", "error"}
           /\ (pc' = "scout" /\ pc' # pc) => pc \in {"process", "route"}
           /\ (pc \in Stages /\ state'.scout_report # state.scout_report)
                => pc = "scout"
           /\ (pc \in Stages /\ state'.contrarian_report # state.contrarian_report)
                => pc = "contrarian"
           /\ (pc \in Stages
               /\ state'.risk_adjusted_score # state.risk_adjusted_score)
                => pc = "judge" ]_vars

\* the Judge of the second cycle is running on the two reports of that cycle,
\* which differ from those of the first
C11_Witness ==
    /\ pc = "judge" /\ attempt >= 1 /\ hist.scout_runs = 2
    /\ hist.scout_at = 2 /\ hist.contrarian_at = 2 /\ hist.judge_at = 1
    /\ compute_score(Val(state.scout_report).bullish_confidence,
                     Val(state.contrarian_report).bearish_confidence,
                     Val(state.deal_data)) # Val(state.risk_adjusted_score)

\* C12: review_cycle is 0 when the review starts, goes up by exactly 1 with
\* each successful Scout execution, is left alone by the Contrarian, the Judge
\* and the router, and never goes down; so whenever the Judge runs it equals
\* the number of Scout executions so far.
C12_CycleCounts ==
    /\ []((pc = "scout" /\ hist.scout_runs = 0) => state.review_cycle = 0)
    /\ [](pc \in {"judge", "route", "END"} =>
            state.review_cycle = hist.scout_runs)
    /\ [][ (pc \in Stages \cup {"route"}) =>
             (IF pc = "scout" /\ pc' = "contrarian"
              THEN state'.review_cycle = state.review_cycle + 1
              ELSE state'.review_cycle = state.review_cycle) ]_vars

\* the Judge of the second cycle has returned: two Scout executions, count 2
C12_Witness ==
    /\ pc = "route" /\ state.review_cycle = 2
    /\ hist.scout_runs = 2 /\ hist.judge_at = 2

\* The five steps of the scoring formula in exact arithmetic: ndMultiple > 4.0
\* as netDebt > 4 EBITDA, confidences in 1/10000, the weighted sum in 1/100000.
ReferenceScore(bullish, bearish, d) ==
    LET highLeverage    == d.ebitda > 0 /\ d.net_debt > 4 * d.ebitda
        leveragePenalty == IF highLeverage THEN 2 ELSE 1
        adjustedBearish == Min(Unit, bearish * leveragePenalty)
        downsideWeight  == IF leveragePenalty > 1 THEN 13 ELSE 10
        raw             == bullish * 12 - adjustedBearish * downsideWeight
        clamped         == Max(-10 * Unit, Min(10 * Unit, raw))
    IN  RoundDiv(clamped, 10)

\* C13: for all bullish and bearish in [0,1] and every deal compute_score
\* returns the value of the five-step formula; (0.80, 0.20, multiple 1.0)
\* gives 0.76 and INVEST, (0.60, 0.50, normal leverage) gives 0.22 and
\* REQUIRES_DUE_DILIGENCE, (0.40, 0.70, multiple 5.0) gives -0.82 and PASS.
C13_ScoreIsReference ==
    eng.fn = "compute_score" =>
        LET d     == Val(eng.deal_data)
            score == Val(eng.result)
        IN  /\ score = ReferenceScore(eng.bullish, eng.bearish, d)
            /\ (eng.bullish = 8000 /\ eng.bearish = 2000 /\ d = SoundDeal)
                 => (score = 7600 /\ verdict(score) = "INVEST")
            /\ (eng.bullish = 6000 /\ eng.bearish = 5000
                /\ d \in {SoundDeal, ThresholdDeal, LossDeal, ZeroEbitdaDeal})
                 => (score = 2200 /\ verdict(score) = "REQUIRES_DUE_DILIGENCE")
            /\ (eng.bullish = 4000 /\ eng.bearish = 7000 /\ d = LeveredDeal)
                 => (score = -8200 /\ verdict(score) = "PASS")

\* the third scenario: the doubled bearish confidence is capped at 1.0
C13_Witness ==
    /\ eng.fn = "compute_score" /\ eng.deal_data = Some(LeveredDeal)
    /\ eng.bullish = 4000 /\ eng.bearish = 7000 /\ eng.result = Some(-8200)

C15_LeveragePenalty ==
    eng.fn = "compute_score" =>
        LET d       == Val(eng.deal_data)
            penalty == leverage_penalty(d)
        IN  /\ penalty \in {1, 2}
            /\ penalty = 2 <=> (d.ebitda > 0 /\ d.net_debt > 4 * d.ebitda)
            /\ d \in {ThresholdDeal, LossDeal, ZeroEbitdaDeal} =>
                 /\ penalty = 1
                 /\ Val(eng.result) =
                      RoundDiv(Max(-10 * Unit,
                                   Min(10 * Unit,
                                       12 * eng.bullish - 10 * eng.bearish)), 10)

\* a deal at exactly 4.0 x EBITDA scored without a penalty
C15_Witness ==
    /\ eng.fn = "compute_score" /\ eng.deal_data = Some(ThresholdDeal)
    /\ eng.bullish = 5000 /\ eng.bearish = 6000 /\ eng.result = Some(0)

\* C16: verdict maps every score in [-1, 1] to exactly one of INVEST
\* (score > 0.45), PASS (score < -0.15) and REQUIRES_DUE_DILIGENCE (otherwise);
\* 0.45 and -0.15 both give REQUIRES_DUE_DILIGENCE.
C16_VerdictPartition ==
    eng.fn = "verdict" =>
        LET v == Val(eng.result)
        IN  /\ v \in Decisions
            /\ v = "INVEST" <=> eng.score > 4500
            /\ v = "PASS" <=> eng.score < -1500
            /\ v = "REQUIRES_DUE_DILIGENCE"
                 <=> (-1500 <= eng.score /\ eng.score <= 4500)

\* the lower threshold itself
C16_Witness ==
    /\ eng.fn = "verdict" /\ eng.score = -1500
    /\ eng.result = Some("REQUIRES_DUE_DILIGENCE")

\* C17: classify returns PROBABILITY_DISAGREEMENT whenever
\* |bullish - bearish| > 0.40, also for a score in (-0.20, 0.20); otherwise
\* AMBIGUOUS_SIGNAL exactly when the score is strictly between -0.20 and 0.20;
\* otherwise STRUCTURAL_DISAGREEMENT; a gap of exactly 0.40 is not a
\* probability disagreement and a score of exactly -0.20 or 0.20 is not
\* ambiguous.
C17_ClassifyByGapAndBand ==
    eng.fn = "classify_conflict" =>
        Val(eng.result) =
            IF Abs(eng.bullish - eng.bearish) > 4000
                THEN "PROBABILITY_DISAGREEMENT"
            ELSE IF -2000 < eng.score /\ eng.score < 2000
                THEN "AMBIGUOUS_SIGNAL"
            ELSE "STRUCTURAL_DISAGREEMENT"

\* C18: resolve with AMBIGUOUS_SIGNAL returns REQUIRES_DUE_DILIGENCE for every
\* score, never INVEST or PASS.
C18_AmbiguousResolvesToDiligence ==
    (eng.fn = "resolve_conflict" /\ eng.conflict_type = "AMBIGUOUS_SIGNAL")
        => eng.result = Some("REQUIRES_DUE_DILIGENCE")

\* an ambiguous conflict at a score whose verdict is INVEST
C18_Witness ==
    /\ eng.fn = "resolve_conflict" /\ eng.conflict_type = "AMBIGUOUS_SIGNAL"
    /\ eng.score = Unit /\ verdict(eng.score) = "INVEST"
    /\ eng.result = Some("REQUIRES_DUE_DILIGENCE")

\* PASS < REQUIRES_DUE_DILIGENCE < INVEST
Favour(v) ==
    CASE v = "PASS" -> 0
      [] v = "REQUIRES_DUE_DILIGENCE" -> 1
      [] v = "INVEST" -> 2

\* C19: resolve with STRUCTURAL_DISAGREEMENT returns verdict(score - 0.15) for
\* every score, never a more favourable verdict than verdict(score); at score
\* 0.50 it returns REQUIRES_DUE_DILIGENCE.
C19_StructuralPenalty ==
    (eng.fn = "resolve_conflict"
     /\ eng.conflict_type = "STRUCTURAL_DISAGREEMENT")
        => LET v == Val(eng.result)
           IN  /\ v = verdict(eng.score - 1500)
               /\ Favour(v) <= Favour(verdict(eng.score))
               /\ eng.score = 5000 => v = "REQUIRES_DUE_DILIGENCE"
               /\ v = "INVEST" <=> eng.score > 6000
               /\ v = "PASS" <=> eng.score < 0

\* the structural conflict at score 0.50: INVEST by the score, resolved lower
\* to REQUIRES_DUE_DILIGENCE
C19_Witness ==
    /\ eng.fn = "resolve_conflict"
    /\ eng.conflict_type = "STRUCTURAL_DISAGREEMENT"
    /\ eng.score = 5000 /\ verdict(eng.score) = "INVEST"
    /\ eng.result = Some("REQUIRES_DUE_DILIGENCE")

\* C20: with several drivers calling fetch_and_lock_deal concurrently, under
\* every interleaving each deal is claimed by at most one of them: no deal is
\* returned to two callers and no deal is reviewed twice.
C20_ClaimedOnce ==
    /\ \A r \in DOMAIN claimed :
         Len(claimed[r].by) <= 1 /\ claimed[r].reviews <= 1
    /\ \A v \in Drivers, w \in Drivers :
         (v # w /\ drv[v].row # 0) => drv[v].row # drv[w].row

\* contention: the second driver saw the oldest deal as NEW, found its row
\* locked by the first, skipped it and locked the next one
C20_Witness ==
    /\ Len(deals) = 2 /\ deals[1].status = "NEW" /\ deals[2].status = "NEW"
    /\ drv[1].pc = "updated" /\ drv[1].row = 1 /\ locks[1] = 1
    /\ drv[2].pc = "locked" /\ drv[2].row = 2 /\ locks[2] = 2

\* C21: a deal marked FAILED is never claimed again and its status never
\* changes; only deals whose status is NEW are claimed, and no operation moves
\* a deal back to NEW.
C21_FailedIsFinal ==
    [][ \A r \in DOMAIN deals :
          /\ (deals[r].status = "FAILED")
                => (deals'[r].status = "FAILED" /\ claimed'[r] = claimed[r])
          /\ (deals[r].status # "NEW") => (deals'[r].status # "NEW")
          /\ (claimed'[r].by # claimed[r].by) => (deals[r].status = "NEW") ]_vars

\* the driver whose first review failed polled again with the failed deal in
\* the table, and claimed the second deal
C21_Witness ==
    /\ Len(deals) = 2
    /\ deals[1].status = "FAILED" /\ deals[2].status = "PROCESSING"
    /\ claimed[1].by = <<1>> /\ claimed[2].by = <<1>>
    /\ drv[1].pc = "process" /\ drv[1].row = 2

\* C22: for every well-formed deal, deals with a negative EBITDA margin,
\* negative growth or negative free cash flow included, run_scout returns
\* growth, margin, cashflow and efficiency scores in [0, 1] and a
\* bullish_confidence in [0, 1].
C22_ScoutScoresInUnit ==
    (eng.fn = "run_scout")
        => LET metrics == Val(eng.result)
           IN  /\ InUnit(metrics.growth_score)
               /\ InUnit(metrics.margin_score)
               /\ InUnit(metrics.cashflow_score)
               /\ InUnit(metrics.efficiency_score)
               /\ InUnit(metrics.bullish_confidence)

\* a deal that a fetch could claim now: NEW, and its row lock is free
available(r) == claimable(deals[r]) /\ row_free(r)

C24_CorrectiveInstructions ==
    /\ []((pc \in Stages /\ attempt >= 1)
            => (Len(prompt.fixes) = attempt - 1
                /\ Len(prompt.fixes) <= max_retries - 1))
    /\ [][ (pc \in Stages /\ attempt >= 1 /\ hist'.calls # hist.calls)
           => (IF pc' = pc
               THEN /\ attempt < max_retries /\ attempt' = attempt + 1
                    /\ last_error' # None
                    /\ prompt' = [prompt EXCEPT
                                    !.fixes = Append(@, last_error')]
               ELSE IF pc' = "error"
               THEN /\ attempt = max_retries /\ last_error' # None
                    /\ prompt' = prompt
                    /\ exc' = "[" \o prompt.label \o "] Failed after 2 retries: "
                                  \o last_error'
               ELSE /\ prompt'.fixes = <<>> /\ last_error' = None
                    /\ exc' = exc) ]_vars

\* the Scout's first attempt met a gateway error, which went into the prompt;
\* its second attempt failed the quality check, and that is the reason raised
C24_Witness ==
    /\ pc = "error" /\ prompt.label = "Scout" /\ attempt = 2
    /\ prompt.fixes = <<"gateway error">>
    /\ last_error = "bullish_confidence out of range"
    /\ exc = "[Scout] Failed after 2 retries: bullish_confidence out of range"

\* a Judge output whose decision was forced
Forced ==
    /\ pc \in {"route", "END"}
    /\ state.decision_source \in {forced_source(c) : c \in ConflictTypes}

\* C25 as stated: when resolution is forced on the final cycle the recorded
\* final_decision equals the system verdict, system_decision = verdict(score),
\* for every conflict category.
C25_ForcedIsSystemVerdict ==
    Forced => /\ state.system_decision = verdict(Val(state.risk_adjusted_score))
              /\ state.final_decision = state.system_decision

\* C25: when resolution is forced on the final cycle, system_decision is
\* verdict(score) and the recorded final_decision is the system verdict for a
\* PROBABILITY_DISAGREEMENT, verdict(score - 0.15) for a
\* STRUCTURAL_DISAGREEMENT and REQUIRES_DUE_DILIGENCE for an AMBIGUOUS_SIGNAL,
\* whatever the Judge stated.
C25_ForcedByCategory ==
    Forced
    => LET score == Val(state.risk_adjusted_score)
       IN  /\ state.system_decision = verdict(score)
           /\ state.decision_source = "FORCED_" \o state.conflict_type
           /\ state.final_decision =
                CASE state.conflict_type = "PROBABILITY_DISAGREEMENT" ->
                        state.system_decision
                  [] state.conflict_type = "STRUCTURAL_DISAGREEMENT" ->
                        verdict(score - 1500)
                  [] state.conflict_type = "AMBIGUOUS_SIGNAL" ->
                        "REQUIRES_DUE_DILIGENCE"

\* a probability disagreement on the final cycle: the Judge said PASS and the
\* system verdict INVEST is recorded
C25_Witness ==
    /\ pc = "END" /\ state.review_cycle = 2
    /\ state.decision_source = "FORCED_PROBABILITY_DISAGREEMENT"
    /\ state.llm_decision = "PASS"
    /\ state.system_decision = "INVEST" /\ state.final_decision = "INVEST"

\* C26: in a repeat cycle (one that follows a flagged conflict) each of the
\* three stages, Scout, Contrarian and Judge, builds a prompt that contains a
\* repeat-cycle instruction, and in the first cycle none of them does.
C26_RepeatCycleNote ==
    (pc \in Stages /\ attempt >= 1)
        => (prompt.note # "" <=> hist.scout_runs >= 2)

\* the deal with its net debt brought down to a multiple of at most 4.0
Delevered(d) ==
    {[d EXCEPT !.net_debt = nd] : nd \in {0, leverage_threshold * d.ebitda}}

\* C27: for every bullish and bearish in [0, 1], the score compute_score gives
\* a deal whose netDebt / EBITDA exceeds 4.0 is at most the score it gives an
\* otherwise identical deal whose multiple is at most 4.0: leverage never
\* raises the score.
C27_LeverageNeverRaises ==
    (eng.fn = "compute_score" /\ Levered(Val(eng.deal_data)))
        => \A d \in Delevered(Val(eng.deal_data)) :
             /\ ~Levered(d)
             /\ Val(eng.result) <= compute_score(eng.bullish, eng.bearish, d)

\* bullish 0.50 and bearish 0.50: -0.70 at 5.0 x EBITDA, 0.10 at 4.0 x
C27_Witness ==
    /\ eng.fn = "compute_score" /\ eng.deal_data = Some(LeveredDeal)
    /\ eng.bullish = 5000 /\ eng.bearish = 5000
    /\ eng.result = Some(-7000)
    /\ compute_score(5000, 5000, ThresholdDeal) = 1000

ForcedTags == {forced_source(c) : c \in ConflictTypes}

\* C28: in every terminal state of a review decision_source is
\* LLM_AGREES_WITH_MATH or a FORCED_ tag, never CONFLICT_PENDING_REVIEW: the
\* Judge's final-cycle test and the router's loop test agree, so the router
\* loops exactly on a pending conflict, the review never ends on a conflict
\* that was neither absent nor forcibly resolved, and it never loops after a
\* forced resolution.
C28_TerminalSource ==
    /\ [](pc = "END" => state.decision_source
                          \in {"LLM_AGREES_WITH_MATH"} \cup ForcedTags)
    /\ [][ (pc = "route" /\ pc' # pc)
           => /\ pc' \in {"scout", "END"}
              /\ pc' = "scout"
                   <=> state.decision_source = "CONFLICT_PENDING_REVIEW" ]_vars

\* a review that looped on a pending conflict and whose second cycle ended in
\* a forced resolution
C28_Witness ==
    /\ pc = "END" /\ hist.scout_runs = 2 /\ state.review_cycle = 2
    /\ state.decision_source = "FORCED_AMBIGUOUS_SIGNAL"
    /\ state.conflict = Some(TRUE)

\* C29: in every terminal state final_decision differs from the Judge's stated
\* llm_decision only if decision_source is a FORCED_ tag; when decision_source
\* is LLM_AGREES_WITH_MATH, final_decision = llm_decision = system_decision and
\* conflict is false.
C29_OverrideOnlyWhenForced ==
    pc = "END"
    => /\ (state.final_decision # state.llm_decision)
             => (state.decision_source \in ForcedTags)
       /\ (state.decision_source = "LLM_AGREES_WITH_MATH")
             => /\ state.final_decision = state.llm_decision
                /\ state.llm_decision = state.system_decision
                /\ state.conflict = Some(FALSE)
                /\ state.conflict_type = None

\* a levered deal ended on a forced decision: the Judge said INVEST, PASS is
\* recorded
C29_Witness ==
    /\ pc = "END" /\ state.decision_source \in ForcedTags
    /\ state.deal_data = Some(LeveredDeal)
    /\ state.llm_decision = "INVEST" /\ state.final_decision = "PASS"

\* C30: for every completed review, the risk_adjusted_score that save_results
\* writes to the memo equals the score the Judge computed with the Decision
\* Engine in the last cycle, for every score in [-1, 1], a score of exactly 0
\* included.
C30_MemoScoreIsJudgeScore ==
    [][ (pc = "END" /\ pc' = "poll")
        => LET bullish == Val(state.scout_report).bullish_confidence
               bearish == Val(state.contrarian_report).bearish_confidence
               score   == compute_score(bullish, bearish, Val(state.deal_data))
           IN  /\ Len(memos') = Len(memos) + 1
               /\ hist.judge_at = hist.scout_runs
               /\ state.risk_adjusted_score = Some(score)
               /\ memos'[Len(memos')].risk_adjusted_score = score ]_vars

\* the memo rows of a deal
memos_of(i) == {j \in DOMAIN memos : memos[j].deal_id = i}

Settled == {"FINALIZED", "FAILED"}

\* the status of the i-th deal inserted, if there is one
status_of(i) == IF i \in DOMAIN deals THEN deals[i].status ELSE "absent"

\* C31: every deal the driver claimed (status PROCESSING) eventually reaches
\* exactly one of FINALIZED and FAILED and stays there, each gateway and
\* storage call returning or raising and mark_failed returning: FINALIZED
\* with exactly one memo row if the review and the save completed, FAILED with
\* no memo row if an exception was raised while it was processed; in both
\* cases the driver is back at its poll, so that a deal waiting as NEW is
\* claimed and settled in its turn.
C31_ClaimedDealIsSettled ==
    /\ \A i \in 1..MaxDeals :
         (status_of(i) \in {"NEW", "PROCESSING"}) ~> (status_of(i) \in Settled)
    /\ [](\A i \in DOMAIN deals :
            Cardinality(memos_of(i)) =
               IF deals[i].status = "FINALIZED" THEN 1 ELSE 0)
    /\ [][ \A i \in DOMAIN deals :
             /\ (deals[i].status \in Settled)
                   => (deals'[i].status = deals[i].status)
             /\ (deals[i].status = "PROCESSING" /\ deals'[i].status # "PROCESSING")
                   => /\ i = deal /\ pc' = "poll"
                      /\ IF exc # None
                         THEN /\ deals'[i].status = "FAILED"
                              /\ pc \in {"error", "save_error"}
                              /\ memos' = memos
                         ELSE /\ deals'[i].status = "FINALIZED"
                              /\ pc = "END"
                              /\ Len(memos') = Len(memos) + 1 ]_vars

\* the review of the deal completed and save_results raised: the deal is
\* FAILED without a memo row and the driver polls again
C31_Witness ==
    /\ pc = "poll" /\ Len(deals) = 1 /\ deals[1].status = "FAILED"
    /\ hist.aborted = <<"", 2>>
    /\ memos_of(1) = {} /\ scout_reports = <<>>

====
